---------------------------- MODULE Spec2Model ----------------------------
(***************************************************************************)
(* Calculadora EPH (app_eph_trimestres.py): table loader, schema resolver, *)
(* period detector, household / individual analyzers, narrative builder    *)
(* and report renderer, as one state machine over the script's variables.  *)
(*                                                                         *)
(* Conventions                                                             *)
(*   - Python None is the empty sequence, a present value x is <<x>>.      *)
(*   - A table (DataFrame) is a sequence of columns [name, cells]; every   *)
(*     column of a table has the same number of cells (rows).              *)
(*   - A cell is a record [kind, val]: an integer value, an empty cell     *)
(*     (NaN) or a non-numeric text.  Numeric cells are integer valued.     *)
(*   - An ordered dict is a sequence of entries [k, n].                    *)
(***************************************************************************)
EXTENDS Integers, Sequences, FiniteSets, TLC

VARIABLES
    pc,            \* position of the run
    candidates,    \* get_first_col: the alias list handed in
    found,         \* get_first_col: the value returned
    upload,        \* _read_table: the uploaded file
    parsed,        \* _read_table: how the table was parsed
    hog_name,      \* hog_file.name
    ind_name,      \* ind_file.name
    inst_name,     \* inst_file.name, None without an instructivo
    df_hog,        \* Households table
    df_ind,        \* Individuals table
    period,        \* (anio_h, tri_h) and (anio_i, tri_i) of detect_year_quarter
    anio,          \* detected year of the run
    tri,           \* detected quarter of the run
    hog_res,       \* analyze_households result
    ind_res,       \* analyze_individuals result
    doc,           \* the generated document
    default_name   \* the suggested download file name

vars == <<pc, candidates, found, upload, parsed, hog_name, ind_name, inst_name,
          df_hog, df_ind, period, anio, tri, hog_res, ind_res, doc, default_name>>

resolverVars == <<candidates, found>>
loaderVars == <<upload, parsed>>
inputVars == <<hog_name, ind_name, inst_name, df_hog, df_ind>>
outputVars == <<period, anio, tri, hog_res, ind_res, doc, default_name>>

(***************************************************************************)
(* Bounds of the model.                                                    *)
(***************************************************************************)
MaxCols == 3
MaxAliases == 2
MaxRows == 3
MaxLine == 3

(***************************************************************************)
(* Python values.                                                          *)
(***************************************************************************)
None == <<>>
Some(x) == <<x>>

Num(n) == [kind |-> "num", val |-> n]
NaN == [kind |-> "nan", val |-> 0]
Txt == [kind |-> "str", val |-> 0]

\* The text of the one non-numeric cell the tables hold.
BadText == "abc"

RECURSIVE SeqsUpTo(_, _)
SeqsUpTo(S, n) ==
    IF n = 0 THEN {<<>>}
    ELSE LET shorter == SeqsUpTo(S, n - 1)
         IN  shorter \cup {Append(s, x) : s \in {t \in shorter : Len(t) = n - 1}, x \in S}

SeqsOfLen(S, n) == {s \in SeqsUpTo(S, n) : Len(s) = n}

Distinct(s) == \A i, j \in 1..Len(s) : i # j => s[i] # s[j]

Range(s) == {s[i] : i \in 1..Len(s)}

(***************************************************************************)
(* str.lower() on the column names and aliases of the model.               *)
(***************************************************************************)
LowerTable == {
    <<"ANO4", "ano4">>, <<"ANO", "ano">>, <<"AÑO", "año">>, <<"YEAR", "year">>,
    <<"ANIO", "anio">>, <<"ANIO4", "anio4">>, <<"TRIMESTRE", "trimestre">>,
    <<"TRIM", "trim">>, <<"TRIMES", "trimes">>, <<"QUARTER", "quarter">>,
    <<"CH04", "ch04">>, <<"SEXO", "sexo">>, <<"CH06", "ch06">>, <<"EDAD", "edad">>,
    <<"NIVEL_ED", "nivel_ed">>, <<"NIVEL_EDUC", "nivel_educ">>,
    <<"NIVEL_EDUCATIVO", "nivel_educativo">>, <<"EDUC_NIVEL", "educ_nivel">>,
    <<"ESTADO", "estado">>, <<"COND_ACT", "cond_act">>,
    <<"CONDICION_ACT", "condicion_act">>, <<"CAT_OCUP", "cat_ocup">>,
    <<"TIP_III_04", "tip_iii_04">>, <<"USO_PC", "uso_pc">>, <<"PC_USO", "pc_uso">>,
    <<"TIP_III_06", "tip_iii_06">>, <<"USO_INTERNET", "uso_internet">>,
    <<"INTERNET_USO", "internet_uso">>, <<"ITF", "itf">>, <<"INGTOT", "ingtot">>,
    <<"INGRESO_TOTAL", "ingreso_total">>, <<"ING_HOGAR", "ing_hogar">>,
    <<"P47T", "p47t">>, <<"INGTRIM", "ingtrim">>, <<"Ch04", "ch04">>,
    <<"Sexo", "sexo">>, <<"CODUSU", "codusu">> }

\* A name with no entry in the table is already lower case.
Lower(s) ==
    IF \E p \in LowerTable : p[1] = s
    THEN (CHOOSE p \in LowerTable : p[1] = s)[2]
    ELSE s

(***************************************************************************)
(* Tables.                                                                 *)
(***************************************************************************)
Column(name, cells) == [name |-> name, cells |-> cells]

Columns(df) == [i \in 1..Len(df) |-> df[i].name]

NRows(df) == IF Len(df) = 0 THEN 0 ELSE Len(df[1].cells)

\* df[col]
Series(df, col) == df[CHOOSE i \in 1..Len(df) : df[i].name = col].cells

(***************************************************************************)
(* Schema resolver.                                                        *)
(***************************************************************************)
\* The first column, in table order, equal to alias c ignoring case.
FirstFold(cols, c) ==
    LET hits == {i \in 1..Len(cols) : Lower(cols[i]) = Lower(c)}
    IN  IF hits = {} THEN None
        ELSE Some(cols[CHOOSE i \in hits : \A j \in hits : i <= j])

\* One iteration of the loop over candidates: the alias verbatim, else the
\* first column matching it ignoring case, else nothing.
MatchAlias(cols, c) ==
    IF c \in Range(cols) THEN Some(c) ELSE FirstFold(cols, c)

\* A resolver that runs the verbatim pass over the whole alias list before
\* any case-insensitive comparison.
RECURSIVE TwoPassFrom(_, _, _)
TwoPassFrom(cols, cands, i) ==
    IF i > Len(cands)
    THEN LET folded == {k \in 1..Len(cands) : FirstFold(cols, cands[k]) # None}
         IN  IF folded = {} THEN None
             ELSE FirstFold(cols, cands[CHOOSE k \in folded : \A m \in folded : k <= m])
    ELSE IF cands[i] \in Range(cols) THEN Some(cands[i])
    ELSE TwoPassFrom(cols, cands, i + 1)

GetFirstColTwoPass(cols, cands) == TwoPassFrom(cols, cands, 1)

RECURSIVE GetFirstColFrom(_, _, _)
GetFirstColFrom(cols, cands, i) ==
    IF i > Len(cands) THEN None
    ELSE IF MatchAlias(cols, cands[i]) # None THEN MatchAlias(cols, cands[i])
    ELSE GetFirstColFrom(cols, cands, i + 1)

get_first_col(cols, cands) == GetFirstColFrom(cols, cands, 1)

pick(df, options) == get_first_col(Columns(df), options)

(***************************************************************************)
(* Inputs of the resolver run: tables of up to MaxCols distinctly named    *)
(* columns and alias lists of up to MaxAliases distinct aliases.           *)
(***************************************************************************)
ResolveColNames == {"CH04", "ch04", "Ch04", "SEXO", "sexo"}
ResolveAliases == {"CH04", "SEXO", "sexo", "EDAD"}

\* Nothing detected, analyzed or generated yet.
NoOutput ==
    /\ period = None /\ anio = None /\ tri = None
    /\ hog_res = None /\ ind_res = None
    /\ doc = None /\ default_name = None

InitResolve ==
    /\ pc = "resolve"
    /\ \E names \in {s \in SeqsUpTo(ResolveColNames, MaxCols) : Distinct(s)} :
          df_ind = [i \in 1..Len(names) |-> Column(names[i], <<>>)]
    /\ candidates \in {s \in SeqsUpTo(ResolveAliases, MaxAliases) : Distinct(s)}
    /\ found = None
    /\ upload = None /\ parsed = None
    /\ hog_name = <<>> /\ ind_name = <<>> /\ inst_name = None
    /\ df_hog = <<>>
    /\ NoOutput

Locate ==
    /\ pc = "resolve"
    /\ found' = pick(df_ind, candidates)
    /\ pc' = "resolved"
    /\ UNCHANGED <<candidates, loaderVars, inputVars, outputVars>>

NextResolve == Locate

SpecResolve == InitResolve /\ [][NextResolve]_vars

(***************************************************************************)
(* C1.                                                                     *)
(***************************************************************************)
\* The aliases of the list, by position, that some column equals ignoring case.
FoldHits(cols, cands) ==
    {k \in 1..Len(cands) : \E i \in 1..Len(cols) : Lower(cols[i]) = Lower(cands[k])}

\* The aliases of the list, by position, that exist verbatim as a column.
ExactHits(cols, cands) == {k \in 1..Len(cands) : cands[k] \in Range(cols)}

MinOf(S) == CHOOSE k \in S : \A m \in S : k <= m

\* C1 as stated: a verbatim match of any alias wins over every
\* case-insensitive match; the case-insensitive match is returned only when
\* no alias of the whole list exists verbatim; not found exactly when no
\* alias matches under either pass.
C1_TwoPassPreferred ==
    pc = "resolved" =>
        LET cols == Columns(df_ind)
            exact == ExactHits(cols, candidates)
            fold == FoldHits(cols, candidates)
        IN  /\ exact # {} => found = Some(candidates[MinOf(exact)])
            /\ (exact = {} /\ fold # {}) =>
                   found = FirstFold(cols, candidates[MinOf(fold)])
            /\ (found = None) <=> (fold = {})

\* C1 amended: the result is decided by the first alias, in list order, that
\* some column equals verbatim or ignoring case: the alias itself when it is a
\* column verbatim, otherwise the first column in table order equal to it
\* ignoring case; a verbatim match of a later alias does not take precedence;
\* not found exactly when no alias matches any column either way.
C1_FirstMatchingAlias ==
    pc = "resolved" =>
        LET cols == Columns(df_ind)
            fold == FoldHits(cols, candidates)
        IN  /\ (found = None) <=> (fold = {})
            /\ fold # {} =>
                 LET c == candidates[MinOf(fold)]
                     same == {i \in 1..Len(cols) : Lower(cols[i]) = Lower(c)}
                 IN  found = IF c \in Range(cols) THEN Some(c)
                               ELSE Some(cols[MinOf(same)])

\* An earlier alias matched only ignoring case while a later alias of the
\* list exists verbatim, and the column of the earlier alias was returned.
C1_Witness ==
    /\ pc = "resolved"
    /\ found # None
    /\ \E k \in 1..Len(candidates) :
          /\ candidates[k] \in Range(Columns(df_ind))
          /\ found # Some(candidates[k])
          /\ \E j \in 1..(k - 1) :
                /\ candidates[j] \notin Range(Columns(df_ind))
                /\ Lower(found[1]) = Lower(candidates[j])

(***************************************************************************)
(* Table loader, the delimited-text path.  A text is a sequence of lines,  *)
(* a line a sequence of characters.  What pd.read_csv and pd.read_table do *)
(* with a text is an input of the run: csv_ok says whether                 *)
(* pd.read_csv(text, sep) returns for the separator chosen from the first  *)
(* line, default_ok whether pd.read_csv with its default separator does,   *)
(* auto_ok whether pd.read_table(sep=None) does.                           *)
(***************************************************************************)
sep_candidates == <<",", ";", "\t", "|">>

\* str.count of a one-character separator.
Count(line, ch) == Cardinality({i \in 1..Len(line) : line[i] = ch})

\* text.splitlines()[0] if text else ""
FirstLine(lines) == IF Len(lines) = 0 THEN <<>> ELSE lines[1]

\* A choice that falls back to the comma whenever the highest count is shared.
MaxByCountCommaOnTie(line) ==
    LET best == {i \in 1..Len(sep_candidates) :
                   \A j \in 1..Len(sep_candidates) :
                       Count(line, sep_candidates[j]) <= Count(line, sep_candidates[i])}
    IN  IF Cardinality(best) = 1 THEN sep_candidates[MinOf(best)] ELSE ","

\* max(counts, key=counts.get) over a dict that always holds the four
\* candidates in list order: the first candidate of the highest count.
MaxByCount(line) ==
    LET best == {i \in 1..Len(sep_candidates) :
                   \A j \in 1..Len(sep_candidates) :
                       Count(line, sep_candidates[j]) <= Count(line, sep_candidates[i])}
    IN  sep_candidates[MinOf(best)]

SniffSep(lines) == MaxByCount(FirstLine(lines))

\* The fields of a line under a one-character separator.
RECURSIVE SplitFrom(_, _, _, _)
SplitFrom(line, ch, i, cur) ==
    IF i > Len(line) THEN <<cur>>
    ELSE IF line[i] = ch THEN <<cur>> \o SplitFrom(line, ch, i + 1, <<>>)
    ELSE SplitFrom(line, ch, i + 1, Append(cur, line[i]))

Split(line, ch) == SplitFrom(line, ch, 1, <<>>)

ParseWith(lines, ch) == [i \in 1..Len(lines) |-> Split(lines[i], ch)]

_read_table(up) ==
    IF up.excel THEN [via |-> "excel", sep |-> None, rows |-> <<>>]
    ELSE IF up.csv_ok
    THEN [via |-> "sniff", sep |-> Some(SniffSep(up.lines)),
          rows |-> ParseWith(up.lines, SniffSep(up.lines))]
    ELSE IF up.default_ok
    THEN [via |-> "default", sep |-> Some(","), rows |-> ParseWith(up.lines, ",")]
    ELSE IF up.auto_ok
    THEN [via |-> "auto", sep |-> None, rows |-> <<>>]
    ELSE [via |-> "raise", sep |-> None, rows |-> <<>>]

LineChars == {",", ";", "\t", "|", "a"}

\* The lines a text may hold after its first.
LaterLines == {<<>>, << <<",", ",", ",", ",", ",">> >>, << <<"a", "|", "|", "|", "|", "|">> >>}

Uploads ==
    {u \in [excel : BOOLEAN, lines : {<<>>} \cup
                {<<first>> \o later : first \in SeqsUpTo(LineChars, MaxLine),
                                      later \in LaterLines},
            csv_ok : BOOLEAN, default_ok : BOOLEAN, auto_ok : BOOLEAN] :
        \* a spreadsheet is not decoded as text
        /\ u.excel => (u.lines = <<>> /\ u.csv_ok /\ u.default_ok /\ u.auto_ok)
        \* an empty text parses under no strategy
        /\ (~u.excel /\ u.lines = <<>>) => (~u.csv_ok /\ ~u.default_ok /\ ~u.auto_ok)
        \* the same text under the same separator parses the same way
        /\ (~u.excel /\ SniffSep(u.lines) = ",") => (u.csv_ok = u.default_ok)}

InitLoad ==
    /\ pc = "upload"
    /\ upload \in {Some(u) : u \in Uploads}
    /\ parsed = None
    /\ candidates = <<>> /\ found = None
    /\ hog_name = <<>> /\ ind_name = <<>> /\ inst_name = None
    /\ df_hog = <<>> /\ df_ind = <<>>
    /\ NoOutput

ReadTable ==
    /\ pc = "upload"
    /\ parsed' = Some(_read_table(upload[1]))
    /\ pc' = "read"
    /\ UNCHANGED <<resolverVars, upload, inputVars, outputVars>>

NextLoad == ReadTable

SpecLoad == InitLoad /\ [][NextLoad]_vars

(***************************************************************************)
(* C8.                                                                     *)
(***************************************************************************)
\* The candidates of the highest count in a line.
Leaders(line) ==
    {c \in Range(sep_candidates) :
        \A d \in Range(sep_candidates) : Count(line, d) <= Count(line, c)}

Sniffed == pc = "read" /\ parsed[1].via = "sniff"

\* C8 as stated: the separator the text is parsed with is the candidate of the
\* strictly highest count in the first line, and the comma whenever two or
\* more candidates share the highest count or none occurs.
C8_CommaOnTie ==
    Sniffed =>
        LET lead == Leaders(FirstLine(upload[1].lines))
        IN  parsed[1].sep = IF Cardinality(lead) = 1
                               THEN Some(CHOOSE c \in lead : TRUE)
                               ELSE Some(",")

\* C8 amended: in a decoding attempt that parses, the separator the whole
\* text is parsed with is a candidate of the highest count in the first line
\* only, and among candidates sharing the highest count the earliest in the
\* order comma, semicolon, tab, pipe: the comma when it is among them or when
\* no candidate occurs in the first line.
C8_FirstOfLeaders ==
    Sniffed =>
        LET lines == upload[1].lines
            lead == Leaders(FirstLine(lines))
            pos(c) == CHOOSE i \in 1..Len(sep_candidates) : sep_candidates[i] = c
        IN  /\ parsed[1].sep # None
            /\ parsed[1].sep[1] \in lead
            /\ \A c \in lead : pos(parsed[1].sep[1]) <= pos(c)
            /\ parsed[1].rows = [i \in 1..Len(lines) |-> Split(lines[i], parsed[1].sep[1])]

\* Two candidates other than the comma share the highest count of the first
\* line, a later line holds more commas, and the text was parsed.
C8_Witness ==
    /\ Sniffed
    /\ Cardinality(Leaders(FirstLine(upload[1].lines))) >= 2
    /\ "," \notin Leaders(FirstLine(upload[1].lines))
    /\ Len(upload[1].lines) = 2
    /\ Count(upload[1].lines[2], ",") > Count(upload[1].lines[1], parsed[1].sep[1])

(***************************************************************************)
(* Series: numeric coercion, mean, median, string form.                    *)
(***************************************************************************)
\* pd.to_numeric(errors="coerce") on one cell.
ToNumeric(c) == IF c.kind = "num" THEN c ELSE NaN

\* A coercion that reads a malformed or empty cell as 0.
RECURSIVE ZeroFilledFrom(_, _)
ZeroFilledFrom(cells, i) ==
    IF i > Len(cells) THEN <<>>
    ELSE <<IF cells[i].kind = "num" THEN cells[i].val ELSE 0>> \o ZeroFilledFrom(cells, i + 1)

ValidZeroFilled(cells) == ZeroFilledFrom(cells, 1)

\* The values of a series that survive the coercion, in row order.
RECURSIVE ValidFrom(_, _)
ValidFrom(cells, i) ==
    IF i > Len(cells) THEN <<>>
    ELSE IF ToNumeric(cells[i]).kind = "num"
         THEN <<cells[i].val>> \o ValidFrom(cells, i + 1)
         ELSE ValidFrom(cells, i + 1)

Valid(cells) == ValidFrom(cells, 1)

RECURSIVE SumSeq(_)
SumSeq(s) == IF Len(s) = 0 THEN 0 ELSE Head(s) + SumSeq(Tail(s))

RECURSIVE Insert(_, _)
Insert(x, s) ==
    IF Len(s) = 0 THEN <<x>>
    ELSE IF x <= Head(s) THEN <<x>> \o s
    ELSE <<Head(s)>> \o Insert(x, Tail(s))

RECURSIVE SortInts(_)
SortInts(s) == IF Len(s) = 0 THEN <<>> ELSE Insert(Head(s), SortInts(Tail(s)))

\* A float result is kept as the exact fraction num / den.
Frac(n, d) == [num |-> n, den |-> d]

\* float(np.nanmean(v)) if v.notna().any() else None
NanMean(cells) ==
    LET v == Valid(cells)
    IN  IF Len(v) = 0 THEN None ELSE Some(Frac(SumSeq(v), Len(v)))

\* float(np.nanmedian(v)) if v.notna().any() else None
NanMedian(cells) ==
    LET v == SortInts(Valid(cells))
        n == Len(v)
    IN  IF n = 0 THEN None
        ELSE IF n % 2 = 1 THEN Some(Frac(v[(n + 1) \div 2], 1))
        ELSE Some(Frac(v[n \div 2] + v[n \div 2 + 1], 2))

\* The dtype pandas gives the column: object when a cell is text, float64
\* when a cell is empty, int64 otherwise.
Dtype(cells) ==
    IF \E i \in 1..Len(cells) : cells[i].kind = "str" THEN "object"
    ELSE IF \E i \in 1..Len(cells) : cells[i].kind = "nan" THEN "float64"
    ELSE "int64"

\* s.astype(str) on one cell of a column of the given dtype.
AsStr(c, dtype) ==
    IF c.kind = "str" THEN BadText
    ELSE IF c.kind = "nan" THEN "nan"
    ELSE IF dtype = "float64" THEN ToString(c.val) \o ".0"
    ELSE ToString(c.val)

(***************************************************************************)
(* Category mappings.                                                      *)
(***************************************************************************)
MAP_SEXO == (1 :> "Varón") @@ (2 :> "Mujer")

MAP_NIVEL_ED ==
    (1 :> "Sin instrucción") @@ (2 :> "Primaria incompleta") @@
    (3 :> "Primaria completa") @@ (4 :> "Secundaria incompleta") @@
    (5 :> "Secundaria completa") @@ (6 :> "Terciario/Universitario incompleto") @@
    (7 :> "Terciario/Universitario completo")

MAP_COND_ACT ==
    (0 :> "No corresponde / NR") @@ (1 :> "Ocupado/a") @@ (2 :> "Desocupado/a") @@
    (3 :> "Inactivo/a") @@ (4 :> "Menor de 10 años") @@ (9 :> "Ns/Nc")

MAP_BIN_TIC == (0 :> "No") @@ (1 :> "Sí") @@ (2 :> "Ns/Nc")

Cols_SEXO == <<"CH04", "SEXO">>
Cols_EDAD == <<"CH06", "EDAD">>
Cols_NIVEL_ED == <<"NIVEL_ED", "NIVEL_EDUC", "NIVEL_EDUCATIVO", "EDUC_NIVEL">>
Cols_COND_ACT == <<"ESTADO", "COND_ACT", "CONDICION_ACT", "CAT_OCUP">>
Cols_TIC_PC == <<"TIP_III_04", "USO_PC", "PC_USO">>
Cols_TIC_INTERNET == <<"TIP_III_06", "USO_INTERNET", "INTERNET_USO">>
ing_candidates == <<"ITF", "INGTOT", "INGRESO_TOTAL", "ING_HOGAR", "P47T", "INGTRIM">>

(***************************************************************************)
(* Tallies.                                                                *)
(***************************************************************************)
Entry(k, n) == [k |-> k, n |-> n]

CountOf(labs, k) == Cardinality({i \in 1..Len(labs) : labs[i] = k})

\* The keys a tally of the model may hold, in the order Python sorts strings.
KeyOrder == <<
    "-1", "-1.0", "0", "0.0", "1", "1.0", "2", "2.0", "3", "3.0", "4", "4.0", "5", "5.0",
    "6", "6.0", "7", "7.0", "8", "8.0", "9", "9.0",
    "Desocupado/a", "Inactivo/a", "Menor de 10 años", "No", "No corresponde / NR",
    "Ns/Nc", "Ocupado/a", "Primaria completa", "Primaria incompleta",
    "Secundaria completa", "Secundaria incompleta", "Sin instrucción", "Sí",
    "Terciario/Universitario completo", "Terciario/Universitario incompleto",
    "abc", "nan" >>

\* value_counts(dropna=False).sort_index().to_dict() of a series of labels.
SortedTally(labs) ==
    LET present == SelectSeq(KeyOrder, LAMBDA k : k \in Range(labs))
    IN  [i \in 1..Len(present) |-> Entry(present[i], CountOf(labs, present[i]))]

\* A labelling that leaves out the cells whose code has no label.
LabeledDropUnmapped(cells, mapping) ==
    LET kept == SelectSeq(cells, LAMBDA c : c.kind = "num" /\ c.val \in DOMAIN mapping)
    IN  [i \in 1..Len(kept) |-> mapping[kept[i].val]]

\* The label of one cell: the mapped label of its code, else the string form
\* of the cell as the column holds it.
Labeled(cells, mapping) ==
    [i \in 1..Len(cells) |->
        IF ToNumeric(cells[i]).kind = "num" /\ cells[i].val \in DOMAIN mapping
        THEN mapping[cells[i].val]
        ELSE AsStr(cells[i], Dtype(cells))]

value_counts_labeled(cells, mapping) == SortedTally(Labeled(cells, mapping))

\* v.map(MAP_SEXO).fillna("Otro/NR")
SexoLabels(cells) ==
    [i \in 1..Len(cells) |->
        IF ToNumeric(cells[i]).kind = "num" /\ cells[i].val \in DOMAIN MAP_SEXO
        THEN MAP_SEXO[cells[i].val]
        ELSE "Otro/NR"]

\* value_counts(dropna=False).to_dict(): the keys by falling count; pandas
\* leaves the order of keys of equal count open, so every such order is an
\* outcome.
SexoCountsOutcomes(cells) ==
    LET labs == SexoLabels(cells)
        keys == Range(labs)
    IN  {[i \in 1..Len(order) |-> Entry(order[i], CountOf(labs, order[i]))] :
            order \in {o \in SeqsOfLen(keys, Cardinality(keys)) :
                          /\ Distinct(o)
                          /\ \A i, j \in 1..Len(o) :
                                i < j => CountOf(labs, o[i]) >= CountOf(labs, o[j])}}

(***************************************************************************)
(* Age buckets.                                                            *)
(***************************************************************************)
bins == <<0, 5, 12, 18, 30, 45, 60, 75, 120>>
labels == <<"0-4", "5-12", "13-18", "19-30", "31-45", "46-60", "61-75", "75+">>

\* pd.cut(v, bins, labels, right=True, include_lowest=True) on one cell: the
\* bucket (bins[i], bins[i+1]] holding the value, the lowest edge included;
\* missing outside [0, 120] and for a missing value.
Cut(c) ==
    IF ToNumeric(c).kind # "num" THEN "nan"
    ELSE IF c.val < bins[1] \/ c.val > bins[Len(bins)] THEN "nan"
    ELSE labels[MinOf({i \in 1..Len(labels) : c.val <= bins[i + 1]})]

\* cat.value_counts(dropna=False).sort_index().to_dict(): every bucket in
\* order, then the missing entry when a cell fell in no bucket.
EdadTramos(cells) ==
    LET cat == [i \in 1..Len(cells) |-> Cut(cells[i])]
        buckets == [i \in 1..Len(labels) |-> Entry(labels[i], CountOf(cat, labels[i]))]
    IN  IF "nan" \in Range(cat)
        THEN Append(buckets, Entry("nan", CountOf(cat, "nan")))
        ELSE buckets

(***************************************************************************)
(* Analyzers.                                                              *)
(***************************************************************************)
\* The technology sub-result: a key for each column that resolved.
Tic(df, pc_col, int_col) ==
    [k \in (IF pc_col # None THEN {"uso_pc_counts"} ELSE {}) \cup
           (IF int_col # None THEN {"uso_internet_counts"} ELSE {}) |->
        IF k = "uso_pc_counts"
        THEN Some(value_counts_labeled(Series(df, pc_col[1]), MAP_BIN_TIC))
        ELSE Some(value_counts_labeled(Series(df, int_col[1]), MAP_BIN_TIC))]

\* sexo is the outcome of the sex tally, one of SexoCountsOutcomes.
analyze_individuals(df_in, sexo) ==
    LET sexo_col == pick(df_in, Cols_SEXO)
        edad_col == pick(df_in, Cols_EDAD)
        nivel_col == pick(df_in, Cols_NIVEL_ED)
        cond_col == pick(df_in, Cols_COND_ACT)
        pc_col == pick(df_in, Cols_TIC_PC)
        int_col == pick(df_in, Cols_TIC_INTERNET)
    IN  [N_individuos |-> NRows(df_in),
         sexo_counts |-> IF sexo_col # None THEN Some(sexo) ELSE None,
         edad_media |-> IF edad_col # None THEN NanMean(Series(df_in, edad_col[1])) ELSE None,
         edad_p50 |-> IF edad_col # None THEN NanMedian(Series(df_in, edad_col[1])) ELSE None,
         edad_tramos |-> IF edad_col # None
                         THEN Some(EdadTramos(Series(df_in, edad_col[1]))) ELSE None,
         nivel_educativo_counts |->
             IF nivel_col # None
             THEN Some(value_counts_labeled(Series(df_in, nivel_col[1]), MAP_NIVEL_ED))
             ELSE None,
         actividad_counts |->
             IF cond_col # None
             THEN Some(value_counts_labeled(Series(df_in, cond_col[1]), MAP_COND_ACT))
             ELSE None,
         tic |-> IF pc_col # None \/ int_col # None
                 THEN Some(Tic(df_in, pc_col, int_col)) ELSE None]

\* The outcomes of the sex tally of a table; one empty outcome when the sex
\* column does not resolve.
SexoOutcomes(df_in) ==
    IF pick(df_in, Cols_SEXO) = None THEN {<<>>}
    ELSE SexoCountsOutcomes(Series(df_in, pick(df_in, Cols_SEXO)[1]))

analyze_households(df_in) ==
    LET inc_col == pick(df_in, ing_candidates)
    IN  [N_hogares |-> NRows(df_in),
         ingreso_hogar_media |->
             IF inc_col # None THEN NanMean(Series(df_in, inc_col[1])) ELSE None,
         ingreso_hogar_p50 |->
             IF inc_col # None THEN NanMedian(Series(df_in, inc_col[1])) ELSE None]

(***************************************************************************)
(* Period detector.  A file name is a sequence of characters.              *)
(***************************************************************************)
Digits == <<"0", "1", "2", "3", "4", "5", "6", "7", "8", "9">>
UpperLetters == <<"A", "B", "C", "D", "E", "F", "G", "H", "I", "J", "K", "L", "M",
                  "N", "O", "P", "Q", "R", "S", "T", "U", "V", "W", "X", "Y", "Z">>
LowerLetters == <<"a", "b", "c", "d", "e", "f", "g", "h", "i", "j", "k", "l", "m",
                  "n", "o", "p", "q", "r", "s", "t", "u", "v", "w", "x", "y", "z">>

IsDigit(c) == c \in Range(Digits)
DigitVal(c) == (CHOOSE i \in 1..Len(Digits) : Digits[i] = c) - 1
IsSpace(c) == c \in {" ", "\t"}
\* \w
IsWordChar(c) == c \in Range(Digits) \cup Range(UpperLetters) \cup Range(LowerLetters) \cup {"_"}

LowerChar(c) ==
    IF c \in Range(UpperLetters)
    THEN LowerLetters[CHOOSE i \in 1..Len(UpperLetters) : UpperLetters[i] = c]
    ELSE c

\* hog_file.name.lower()
LowerName(name) == [i \in 1..Len(name) |-> LowerChar(name[i])]

\* re.search(r"(20\d{2})", name): the leftmost 2, 0, digit, digit; int(group(1)).
SearchYear(name) ==
    LET hits == {i \in 1..(Len(name) - 3) :
                    /\ name[i] = "2" /\ name[i + 1] = "0"
                    /\ IsDigit(name[i + 2]) /\ IsDigit(name[i + 3])}
    IN  IF hits = {} THEN None
        ELSE LET i == MinOf(hits)
             IN  Some(2000 + 10 * DigitVal(name[i + 2]) + DigitVal(name[i + 3]))

QTokens == << <<"t">>, <<"t", "r", "i">>, <<"t", "r", "i", "m">>,
              <<"t", "r", "i", "m", "e", "s", "t", "r", "e">> >>

\* The first position from q on that holds no white space (\s* is greedy and
\* every token starts with a letter).
RECURSIVE SkipSpaces(_, _)
SkipSpaces(name, q) ==
    IF q <= Len(name) /\ IsSpace(name[q]) THEN SkipSpaces(name, q + 1) ELSE q

\* The token, ignoring case, at position q, followed by a word boundary.
TokenAt(name, q, tok) ==
    /\ q + Len(tok) - 1 <= Len(name)
    /\ \A k \in 1..Len(tok) : LowerChar(name[q + k - 1]) = tok[k]
    /\ \/ q + Len(tok) - 1 = Len(name)
       \/ ~IsWordChar(name[q + Len(tok)])

\* (?:^|[^\d])(1|2|3|4)\s*(?:t|tri|trim|trimestre)\b with the digit at p.
QuarterAt(name, p) ==
    /\ name[p] \in {"1", "2", "3", "4"}
    /\ (p = 1 \/ ~IsDigit(name[p - 1]))
    /\ \E k \in 1..Len(QTokens) : TokenAt(name, SkipSpaces(name, p + 1), QTokens[k])

\* re.search of the quarter pattern with re.I: the leftmost match; int(group(1)).
SearchQuarter(name) ==
    LET hits == {p \in 1..Len(name) : QuarterAt(name, p)}
    IN  IF hits = {} THEN None ELSE Some(DigitVal(name[MinOf(hits)]))

year_aliases == <<"ANO4", "ANO", "AÑO", "YEAR", "ANIO", "ANIO4">>
q_aliases == <<"TRIMESTRE", "TRIM", "TRIMES", "QUARTER">>

\* int(pd.to_numeric(col, errors="coerce").mode().iloc[0]) inside try/except:
\* mode() drops the missing values and returns the most frequent values in
\* rising order; with no value left iloc[0] raises and the result stays None.
ModeInt(cells) ==
    LET v == Valid(cells)
        top == {x \in Range(v) : \A y \in Range(v) : CountOf(v, y) <= CountOf(v, x)}
    IN  IF Len(v) = 0 THEN None ELSE Some(MinOf(top))

\* A fallback that takes the file name's value whenever the name holds one.
FallbackNameFirst(fromCol, m) == IF m # None THEN m ELSE fromCol

\* The fallback by file name of one field: only with the field still None.
Fallback(fromCol, m) == IF m # None /\ fromCol = None THEN m ELSE fromCol

detect_year_quarter(df_in, fallback_name) ==
    LET year_col == get_first_col(Columns(df_in), year_aliases)
        q_col == get_first_col(Columns(df_in), q_aliases)
        anio0 == IF year_col # None THEN ModeInt(Series(df_in, year_col[1])) ELSE None
        tri0 == IF q_col # None THEN ModeInt(Series(df_in, q_col[1])) ELSE None
    IN  IF anio0 = None \/ tri0 = None
        THEN [anio |-> Fallback(anio0, SearchYear(fallback_name)),
              tri |-> Fallback(tri0, SearchQuarter(fallback_name))]
        ELSE [anio |-> anio0, tri |-> tri0]

(***************************************************************************)
(* Number formatting.                                                      *)
(***************************************************************************)
Abs(x) == IF x < 0 THEN -x ELSE x

RECURSIVE Pow10(_)
Pow10(n) == IF n = 0 THEN 1 ELSE 10 * Pow10(n - 1)

\* The decimal digits of d, zero-padded to width w.
RECURSIVE Pad(_, _)
Pad(d, w) == IF w = 0 THEN "" ELSE Pad(d \div 10, w - 1) \o ToString(d % 10)

\* A natural number with its thousands grouped by g.
RECURSIVE Grouped(_, _)
Grouped(n, g) ==
    IF n < 1000 THEN ToString(n)
    ELSE Grouped(n \div 1000, g) \o g \o Pad(n % 1000, 3)

\* a / b, b > 0, a >= 0, rounded to the nearest integer, halves to even: what
\* the fixed-point formats print of a value the float holds exactly.
RoundHalfEven(a, b) ==
    LET q == a \div b
        r == a % b
    IN  IF 2 * r < b THEN q
        ELSE IF 2 * r > b THEN q + 1
        ELSE IF q % 2 = 0 THEN q ELSE q + 1

\* f"{x:,.{nd}f}" of the fraction f, thousands grouped by g, decimals after d.
Fixed(f, nd, g, d) ==
    LET scaled == RoundHalfEven(Abs(f.num) * Pow10(nd), f.den)
        whole == scaled \div Pow10(nd)
        sign == IF f.num < 0 /\ scaled > 0 THEN "-" ELSE ""
    IN  sign \o Grouped(whole, g) \o
        (IF nd = 0 THEN "" ELSE d \o Pad(scaled % Pow10(nd), nd))

\* fmt_num of an int or None.
fmt_num_int(x) ==
    IF x = None THEN "s/d"
    ELSE (IF x[1] < 0 THEN "-" ELSE "") \o Grouped(Abs(x[1]), ".")

\* fmt_num of a float or None: "," grouping and "." decimals swapped.
fmt_num_float(x, nd) ==
    IF x = None THEN "s/d" ELSE Fixed(x[1], nd, ".", ",")

\* f"{share:.1f}" of 100 * (part / total).
Share(part, total) == Fixed(Frac(100 * part, total), 1, "", ".")

\* str() of an int or None inside an f-string.
PyStr(x) == IF x = None THEN "None" ELSE ToString(x[1])

\* dict_to_lines; the bullet character is written "- ".
dict_to_lines(d) == [i \in 1..Len(d) |-> <<"- ", d[i].k, ": ", fmt_num_int(Some(d[i].n))>>]

(***************************************************************************)
(* Narrative builder and report renderer.  A paragraph is the sequence of  *)
(* the parts of its f-string: the literal pieces and the values rendered   *)
(* between them.                                                           *)
(***************************************************************************)
\* x or {}
OrEmpty(x) == IF x = None THEN <<>> ELSE x[1]

\* d.get(k, 0)
GetCount(d, k) ==
    IF \E i \in 1..Len(d) : d[i].k = k
    THEN d[CHOOSE i \in 1..Len(d) : d[i].k = k].n
    ELSE 0

\* sum(d.values())
SumValues(d) == SumSeq([i \in 1..Len(d) |-> d[i].n])

\* x or 1
OrOne(x) == IF x = 0 THEN 1 ELSE x

\* max(d, key=d.get) if d else None: the first key of the highest count.
MaxKey(d) ==
    IF Len(d) = 0 THEN None
    ELSE Some(d[MinOf({i \in 1..Len(d) : \A j \in 1..Len(d) : d[j].n <= d[i].n})].k)

S_INTRO == "El presente apartado sintetiza hallazgos clave"
S_PERIODO == "En el "
S_SEXO == "La estructura por sexo es relativamente equilibrada: "
S_EDAD == "El tramo etario con mayor peso es "
S_EDUC == "En educación, predomina el nivel "
S_ACT == "En el mercado de trabajo, se observa una tasa relativa de ocupación aproximada de "
S_TIC == "Respecto de la inclusión digital, el "
S_RECOM == "Recomendaciones: "

\* tic.get("uso_internet_counts") of the sub-result, {} when absent or None.
InternetCounts(ind) ==
    IF ind.tic = None THEN <<>>
    ELSE IF "uso_internet_counts" \notin DOMAIN ind.tic[1] THEN <<>>
    ELSE OrEmpty(ind.tic[1]["uso_internet_counts"])

PcCounts(ind) ==
    IF ind.tic = None THEN <<>>
    ELSE IF "uso_pc_counts" \notin DOMAIN ind.tic[1] THEN <<>>
    ELSE OrEmpty(ind.tic[1]["uso_pc_counts"])

\* The lines of build_conclusions, before "\n".join.
build_conclusions(hog, ind, meta) ==
    LET total_ind == ind.N_individuos
        total_hog == hog.N_hogares
        sexo == OrEmpty(ind.sexo_counts)
        tot_sexo == OrOne(SumValues(sexo))
        tramos == OrEmpty(ind.edad_tramos)
        tramo_top == MaxKey(tramos)
        ed == OrEmpty(ind.nivel_educativo_counts)
        top_ed == MaxKey(ed)
        act == OrEmpty(ind.actividad_counts)
        tot_act == OrOne(SumValues(act))
        u == InternetCounts(ind)
    IN  << <<S_INTRO>>,
           <<S_PERIODO, fmt_num_int(meta.trimestre), "º trimestre de ",
             fmt_num_int(meta.anio), " se procesaron ", fmt_num_int(Some(total_hog)),
             " hogares y ", fmt_num_int(Some(total_ind)), " individuos.">>,
           <<S_SEXO, Share(GetCount(sexo, "Mujer"), tot_sexo), "% mujeres y ",
             Share(GetCount(sexo, "Varón"), tot_sexo), "% varones">> >>
        \o (IF tramo_top # None THEN << <<S_EDAD, tramo_top[1]>> >> ELSE <<>>)
        \o (IF top_ed # None THEN << <<S_EDUC, top_ed[1]>> >> ELSE <<>>)
        \o << <<S_ACT, Share(GetCount(act, "Ocupado/a"), tot_act), "%, desocupación de ",
                Share(GetCount(act, "Desocupado/a"), tot_act), "% e inactividad de ",
                Share(GetCount(act, "Inactivo/a"), tot_act), "%. ">> >>
        \o (IF Len(u) > 0
            THEN << <<S_TIC, Share(GetCount(u, "Sí"), OrOne(SumValues(u))),
                      "% declara usar Internet. ">> >>
            ELSE <<>>)
        \o << <<S_RECOM>> >>

RECURSIVE Join(_)
Join(chars) == IF Len(chars) = 0 THEN "" ELSE Head(chars) \o Join(Tail(chars))

H_META == "1. Metadatos del procesamiento"
H_HOG == "2. Resultados de Hogares"
H_IND == "3. Resultados de Individuos"
H_SEXO == "3.1 Distribución por sexo"
H_EDAD == "3.2 Estadísticas de edad"
H_NIVEL == "3.3 Nivel educativo (conteos)"
H_ACT == "3.4 Condición de actividad (conteos)"
H_TIC == "3.5 Acceso y uso de TIC (si disponible)"
H_CONC == "4. Análisis y conclusiones"

\* The metadata section.  meta always holds the keys anio and trimestre, so
\* meta.get(key, 's/d') is the value under the key, None included.
MetaSection(meta, instructivo_name) ==
    << <<H_META>>,
       <<"Año detectado: ", PyStr(meta.anio), " | Trimestre detectado: ",
         PyStr(meta.trimestre)>>,
       <<"Archivos cargados: Hogares = ", meta.hog_file, " | Individuos = ",
         meta.ind_file>>,
       <<"Instructivo cargado: ",
         IF instructivo_name = None THEN "s/d" ELSE instructivo_name[1]>> >>

\* The document: its paragraphs in order up to the heading of section 4, and
\* the lines of the narrative paragraph that follows it.
build_report(hog, ind, meta, instructivo_name) ==
    LET sexo == OrEmpty(ind.sexo_counts)
        tramos == OrEmpty(ind.edad_tramos)
        ed == OrEmpty(ind.nivel_educativo_counts)
        act == OrEmpty(ind.actividad_counts)
    IN  [paragraphs |->
            << <<"Universidad Católica de Cuyo">>, <<"">>,
               <<"Fecha de generación: ", "dd/mm/yyyy HH:MM">> >>
            \o MetaSection(meta, instructivo_name)
            \o << <<H_HOG>>,
                  <<"Cantidad de hogares: ", fmt_num_int(Some(hog.N_hogares))>>,
                  <<"Ingreso total del hogar (media): ",
                    fmt_num_float(hog.ingreso_hogar_media, 2)>>,
                  <<"Ingreso total del hogar (mediana): ",
                    fmt_num_float(hog.ingreso_hogar_p50, 2)>>,
                  <<H_IND>>,
                  <<"Cantidad de individuos: ", fmt_num_int(Some(ind.N_individuos))>> >>
            \o (IF Len(sexo) > 0 THEN << <<H_SEXO>> >> \o dict_to_lines(sexo) ELSE <<>>)
            \o (IF ind.edad_media # None
                THEN << <<H_EDAD>>,
                        <<"Edad media: ", fmt_num_float(ind.edad_media, 1),
                          " | Mediana: ", fmt_num_float(ind.edad_p50, 1)>> >>
                     \o (IF Len(tramos) > 0
                         THEN << <<"Distribución por tramos:">> >> \o dict_to_lines(tramos)
                         ELSE <<>>)
                ELSE <<>>)
            \o (IF Len(ed) > 0 THEN << <<H_NIVEL>> >> \o dict_to_lines(ed) ELSE <<>>)
            \o (IF Len(act) > 0 THEN << <<H_ACT>> >> \o dict_to_lines(act) ELSE <<>>)
            \o (IF ind.tic # None /\ DOMAIN ind.tic[1] # {}
                THEN << <<H_TIC>> >>
                     \o (IF Len(PcCounts(ind)) > 0
                         THEN << <<"Uso de computadora:">> >> \o dict_to_lines(PcCounts(ind))
                         ELSE <<>>)
                     \o (IF Len(InternetCounts(ind)) > 0
                         THEN << <<"Uso de internet:">> >>
                              \o dict_to_lines(InternetCounts(ind))
                         ELSE <<>>)
                ELSE <<>>)
            \o << <<H_CONC>> >>,
         conclusions |-> build_conclusions(hog, ind, meta)]

\* x or alt, for an int or None x: None and 0 are falsy.
OrElse(x, alt) == IF x = None \/ x = Some(0) THEN alt ELSE ToString(x[1])

\* f"Informe_EPH_{anio or 'anio'}_T{tri or 'X'}.docx"
DefaultName(a, t) == <<"Informe_EPH_", OrElse(a, "anio"), "_T", OrElse(t, "X"), ".docx">>

(***************************************************************************)
(* The run of the script on two uploaded tables: detection of the period,  *)
(* the two analyses, and the report on the button.                         *)
(***************************************************************************)
Detect ==
    /\ pc = "loaded"
    /\ LET h == detect_year_quarter(df_hog, LowerName(hog_name))
           i == detect_year_quarter(df_ind, LowerName(ind_name))
       IN  /\ period' = Some([h |-> h, i |-> i])
           /\ anio' = IF h.anio # None THEN h.anio ELSE i.anio
           /\ tri' = IF h.tri # None THEN h.tri ELSE i.tri
    /\ pc' = "detected"
    /\ UNCHANGED <<resolverVars, loaderVars, inputVars, hog_res, ind_res, doc, default_name>>

Analyze ==
    /\ pc = "detected"
    /\ hog_res' = Some(analyze_households(df_hog))
    /\ \E sexo \in SexoOutcomes(df_ind) :
          ind_res' = Some(analyze_individuals(df_ind, sexo))
    /\ pc' = "analyzed"
    /\ UNCHANGED <<resolverVars, loaderVars, inputVars, period, anio, tri, doc, default_name>>

\* st.button("Generar informe Word")
Generate ==
    /\ pc = "analyzed"
    /\ LET meta == [anio |-> anio, trimestre |-> tri,
                    hog_file |-> Join(hog_name), ind_file |-> Join(ind_name)]
       IN  doc' = Some(build_report(hog_res[1], ind_res[1], meta, inst_name))
    /\ default_name' = Some(DefaultName(anio, tri))
    /\ pc' = "generated"
    /\ UNCHANGED <<resolverVars, loaderVars, inputVars, period, anio, tri, hog_res, ind_res>>

Next == Detect \/ Analyze \/ Generate

(***************************************************************************)
(* The uploads of the run.                                                 *)
(***************************************************************************)
NameHog == <<"h", "o", "g", ".", "c", "s", "v">>
NameEph2019T3 == <<"e", "p", "h", "_", "i", "n", "d", "_", "2", "0", "1", "9", "_", "3",
                   "t", ".", "c", "s", "v">>
NameEph2021 == <<"E", "P", "H", "2", "0", "2", "1", ".", "t", "x", "t">>
Name2TBase == <<"2", "T", "_", "b", "a", "s", "e", ".", "c", "s", "v">>
Name4Trim2020 == <<"4", " ", "t", "r", "i", "m", " ", "2", "0", "2", "0", ".", "x", "l", "s">>
Name12t1999 == <<"1", "2", "t", "_", "1", "9", "9", "9", ".", "c", "s", "v">>
Name1Trimestre == <<"1", "t", "r", "i", "m", "e", "s", "t", "r", "e", ".", "c", "s", "v">>

FileNames == {NameHog, NameEph2019T3, NameEph2021, Name2TBase, Name4Trim2020,
              Name12t1999, Name1Trimestre}

\* Absent, or one column of one of the names holding the cells.
Maybe(names, cells) == {<<>>} \cup {<<Column(n, cells)>> : n \in names}

Const(c, n) == [i \in 1..n |-> c]

HogPlain == <<Column("CODUSU", <<Txt>>), Column("ITF", <<Num(1000)>>)>>
IndPlain == <<Column("CODUSU", <<Txt>>)>>

\* Which semantic columns the two tables hold, each under one of its names,
\* over two fixed rows.
HogByColumns ==
    {<<Column("CODUSU", <<Txt, Txt>>)>> \o inc :
        inc \in Maybe({"ITF", "ingtot"}, <<Num(1000), Num(2500)>>)}

IndByColumns ==
    {<<Column("CODUSU", <<Txt, Txt>>)>> \o sx \o ed \o nv \o ca \o tp \o ti :
        sx \in Maybe({"CH04", "sexo"}, <<Num(1), Num(2)>>),
        ed \in Maybe({"CH06"}, <<Num(30), Num(41)>>),
        nv \in Maybe({"NIVEL_ED"}, <<Num(5), Num(1)>>),
        ca \in Maybe({"ESTADO"}, <<Num(1), Num(3)>>),
        tp \in Maybe({"USO_PC"}, <<Num(1), Num(0)>>),
        ti \in Maybe({"TIP_III_06"}, <<Num(1), Num(1)>>)}

\* One categorical column over every series of up to MaxRows cells, and the
\* series of three codes 1 and seven codes 5.
CodeCells == {Num(1), Num(2), Num(5), Num(8), NaN, Txt}
CodeColumns == {"CH04", "NIVEL_ED", "ESTADO", "TIP_III_04", "TIP_III_06"}

IndByCodes ==
    {<<Column(n, cells)>> :
        n \in CodeColumns,
        cells \in SeqsUpTo(CodeCells, MaxRows) \cup {Const(Num(1), 3) \o Const(Num(5), 7)}}

\* The age column: every single age from -1 to 122, every series of up to
\* MaxRows cells, and the series 2, 10, 40, 40, 90.
AgeCells == {Num(2), Num(5), Num(40), Num(90), Num(200), NaN, Txt}

IndByAges ==
    {<<Column("CH06", cells)>> :
        cells \in {<<Num(a)>> : a \in -1..122} \cup SeqsUpTo(AgeCells, MaxRows)
                  \cup {<<Num(2), Num(10), Num(40), Num(40), Num(90)>>}}

\* The income column over every series of up to MaxRows cells.
IncomeCells == {Num(1000), Num(2500), NaN, Txt}

HogByIncome == {<<Column("ITF", cells)>> : cells \in SeqsUpTo(IncomeCells, MaxRows)}

\* Tables of up to MaxRows rows with a year and a quarter column: one of the
\* two over every series, the other absent, constant or all invalid.
YearCells == {Num(2020), Num(2021), Txt}
QuarterCells == {Num(2), Num(3), NaN}

PeriodTables(n) ==
    UNION {
        {y \o q : y \in Maybe({"ANO4"}, ys),
                  q \in Maybe({"trimestre"}, Const(Num(3), n)) \cup
                        {<<Column("TRIMESTRE", Const(NaN, n))>>}}
        \cup
        {y \o q : y \in Maybe({"anio"}, Const(Num(2021), n)) \cup
                        {<<Column("ANO4", Const(Txt, n))>>},
                  q \in Maybe({"TRIMESTRE"}, qs)} :
        ys \in SeqsOfLen(YearCells, n), qs \in SeqsOfLen(QuarterCells, n)}

HogByPeriod == UNION {PeriodTables(n) : n \in 0..MaxRows}

IndByPeriod == {IndPlain, <<Column("ANO4", <<Num(2019)>>), Column("TRIM", <<Num(1)>>)>>}

Init ==
    /\ pc = "loaded"
    /\ \/ /\ df_hog \in HogByColumns
          /\ df_ind \in IndByColumns
          /\ hog_name = NameHog /\ ind_name = NameEph2019T3
          /\ inst_name \in {None, Some("instructivo.pdf")}
       \/ /\ df_hog = HogPlain
          /\ df_ind \in IndByCodes \cup IndByAges
          /\ hog_name = NameHog /\ ind_name = NameEph2019T3
          /\ inst_name = None
       \/ /\ df_hog \in HogByIncome
          /\ df_ind = IndPlain
          /\ hog_name = NameHog /\ ind_name = NameHog
          /\ inst_name = None
       \/ /\ df_hog \in HogByPeriod
          /\ df_ind \in IndByPeriod
          /\ hog_name \in FileNames
          /\ ind_name \in {NameHog, NameEph2019T3}
          /\ inst_name = None
    /\ candidates = <<>> /\ found = None
    /\ upload = None /\ parsed = None
    /\ NoOutput

Spec == Init /\ [][Next]_vars

(***************************************************************************)
(* Claims about the analyzers.                                             *)
(***************************************************************************)
Analyzed == pc \in {"analyzed", "generated"}

\* The cells of the column a semantic field resolves to, None when it does
\* not resolve.
FieldCells(df_in, aliases) ==
    IF pick(df_in, aliases) = None THEN None
    ELSE Some(Series(df_in, pick(df_in, aliases)[1]))

HowMany(cells, P(_)) == Cardinality({i \in 1..Len(cells) : P(cells[i])})

IsCode(c, v) == c.kind = "num" /\ c.val = v
IsMalformed(c) == c.kind # "num"

Codes(cells) == {cells[i].val : i \in {j \in 1..Len(cells) : cells[j].kind = "num"}}

IndKeys == {"N_individuos", "sexo_counts", "edad_media", "edad_p50", "edad_tramos",
            "nivel_educativo_counts", "actividad_counts", "tic"}
HogKeys == {"N_hogares", "ingreso_hogar_media", "ingreso_hogar_p50"}
TicKeys == {"uso_pc_counts", "uso_internet_counts"}

\* C2: after the analyses, both results hold every metric of every semantic
\* field, the metrics of a field that did not resolve are None, and a
\* technology sub-result holds both the PC-use and the internet-use entry,
\* None for the one whose column did not resolve.
C2_EveryEntryPresent ==
    Analyzed =>
        LET ind == ind_res[1]
            hog == hog_res[1]
        IN  /\ DOMAIN ind = IndKeys
            /\ DOMAIN hog = HogKeys
            /\ FieldCells(df_hog, ing_candidates) = None =>
                   (hog.ingreso_hogar_media = None /\ hog.ingreso_hogar_p50 = None)
            /\ FieldCells(df_ind, Cols_SEXO) = None => ind.sexo_counts = None
            /\ FieldCells(df_ind, Cols_EDAD) = None =>
                   (ind.edad_media = None /\ ind.edad_p50 = None /\ ind.edad_tramos = None)
            /\ FieldCells(df_ind, Cols_NIVEL_ED) = None => ind.nivel_educativo_counts = None
            /\ FieldCells(df_ind, Cols_COND_ACT) = None => ind.actividad_counts = None
            /\ ind.tic # None =>
                   /\ DOMAIN ind.tic[1] = TicKeys
                   /\ FieldCells(df_ind, Cols_TIC_PC) = None =>
                          ind.tic[1]["uso_pc_counts"] = None
                   /\ FieldCells(df_ind, Cols_TIC_INTERNET) = None =>
                          ind.tic[1]["uso_internet_counts"] = None

\* The tallies of the categorical fields with a code mapping applied by
\* value_counts_labeled, each with the cells it was taken from.
MappedTallies ==
    LET ind == ind_res[1]
        field(cells, d, mapping) == [cells |-> cells, d |-> d, mapping |-> mapping]
    IN  (IF ind.nivel_educativo_counts # None
         THEN {field(FieldCells(df_ind, Cols_NIVEL_ED)[1], ind.nivel_educativo_counts[1],
                     MAP_NIVEL_ED)}
         ELSE {})
        \cup
        (IF ind.actividad_counts # None
         THEN {field(FieldCells(df_ind, Cols_COND_ACT)[1], ind.actividad_counts[1],
                     MAP_COND_ACT)}
         ELSE {})
        \cup
        (IF Len(PcCounts(ind)) > 0
         THEN {field(FieldCells(df_ind, Cols_TIC_PC)[1], PcCounts(ind), MAP_BIN_TIC)}
         ELSE {})
        \cup
        (IF Len(InternetCounts(ind)) > 0
         THEN {field(FieldCells(df_ind, Cols_TIC_INTERNET)[1], InternetCounts(ind),
                     MAP_BIN_TIC)}
         ELSE {})

\* The sex tally with its cells, when the sex column resolved.
SexoTally ==
    IF ind_res[1].sexo_counts # None
    THEN {[cells |-> FieldCells(df_ind, Cols_SEXO)[1], d |-> ind_res[1].sexo_counts[1],
           mapping |-> MAP_SEXO]}
    ELSE {}

\* The string forms of an integer code: as an int and as a float.
CodeStrings(v) == {ToString(v), ToString(v) \o ".0"}

\* A tally holds each code of its cells: a code of the mapping under its
\* label, any other code under a string form of its own, with the number of
\* cells holding it; and the counts add up to the number of records.
TallyKeepsCodes(f) ==
    /\ \A v \in Codes(f.cells) :
          IF v \in DOMAIN f.mapping
          THEN GetCount(f.d, f.mapping[v]) = HowMany(f.cells, LAMBDA c : IsCode(c, v))
          ELSE \E k \in CodeStrings(v) :
                  GetCount(f.d, k) = HowMany(f.cells, LAMBDA c : IsCode(c, v))
    /\ SumValues(f.d) = Len(f.cells)

\* C3 as stated: in every categorical count field, sex included, a code
\* outside the mapping is tallied under its own string form, a code inside
\* under its label, and the tallies add up to the number of records.
C3_OwnStringEveryField ==
    Analyzed => \A f \in MappedTallies \cup SexoTally : TallyKeepsCodes(f)

\* C3 amended: that holds for education level, activity status and the two
\* technology flags; in the sex tally the codes 1 and 2 are tallied under
\* their labels and every other cell, whatever its code, under the one label
\* Otro/NR; in every field the tallies add up to the number of records.
C3_OwnStringExceptSex ==
    Analyzed =>
        /\ \A f \in MappedTallies : TallyKeepsCodes(f)
        /\ \A f \in SexoTally :
              /\ \A v \in DOMAIN MAP_SEXO :
                    GetCount(f.d, MAP_SEXO[v]) = HowMany(f.cells, LAMBDA c : IsCode(c, v))
              /\ GetCount(f.d, "Otro/NR") =
                     HowMany(f.cells, LAMBDA c : ~(c.kind = "num" /\ c.val \in DOMAIN MAP_SEXO))
              /\ SumValues(f.d) = Len(f.cells)

\* An education column holding a code outside the mapping twice and a code
\* inside it was tallied, and a sex column holding a code outside the mapping.
C3_Witness ==
    /\ Analyzed
    /\ \/ /\ ind_res[1].nivel_educativo_counts # None
          /\ HowMany(FieldCells(df_ind, Cols_NIVEL_ED)[1], LAMBDA c : IsCode(c, 8)) = 2
          /\ HowMany(FieldCells(df_ind, Cols_NIVEL_ED)[1], LAMBDA c : IsCode(c, 5)) = 1
       \/ /\ ind_res[1].sexo_counts # None
          /\ HowMany(FieldCells(df_ind, Cols_SEXO)[1], LAMBDA c : IsCode(c, 8)) = 2
          /\ HowMany(FieldCells(df_ind, Cols_SEXO)[1], LAMBDA c : IsCode(c, 5)) = 1

\* The numeric values of a series.
NumVals(cells) ==
    LET nums == SelectSeq(cells, LAMBDA c : c.kind = "num")
    IN  [i \in 1..Len(nums) |-> nums[i].val]

\* m is the mean of the numeric values of the cells, None without any.
IsMeanOf(m, cells) ==
    IF Len(NumVals(cells)) = 0 THEN m = None
    ELSE /\ m # None
         /\ m[1].num * Len(NumVals(cells)) = SumSeq(NumVals(cells)) * m[1].den

\* m is the median of the numeric values of the cells, None without any: at
\* most half of them lie below it and at most half above, and with an even
\* number of them it is the midpoint of the two in the middle.
IsMedianOf(m, cells) ==
    LET v == NumVals(cells)
        n == Len(v)
    IN  IF n = 0 THEN m = None
        ELSE /\ m # None
             /\ 2 * Cardinality({i \in 1..n : v[i] * m[1].den < m[1].num}) <= n
             /\ 2 * Cardinality({i \in 1..n : v[i] * m[1].den > m[1].num}) <= n
             /\ \/ \E i \in 1..n : v[i] * m[1].den = m[1].num
                \/ \E i, j \in 1..n : (v[i] + v[j]) * m[1].den = 2 * m[1].num

\* The continuous fields of the run: the statistics with the cells they were
\* taken from.
MeansAreOfNumericCells ==
    /\ FieldCells(df_ind, Cols_EDAD) # None =>
          /\ IsMeanOf(ind_res[1].edad_media, FieldCells(df_ind, Cols_EDAD)[1])
          /\ IsMedianOf(ind_res[1].edad_p50, FieldCells(df_ind, Cols_EDAD)[1])
    /\ FieldCells(df_hog, ing_candidates) # None =>
          /\ IsMeanOf(hog_res[1].ingreso_hogar_media, FieldCells(df_hog, ing_candidates)[1])
          /\ IsMedianOf(hog_res[1].ingreso_hogar_p50, FieldCells(df_hog, ing_candidates)[1])

\* C4 as stated: a malformed cell is left out of the mean, of the median and
\* of every tally: the category counts and the age buckets hold no entry it
\* contributed, so each tally adds up to the number of well-formed cells.
C4_ExcludedEverywhere ==
    Analyzed =>
        /\ MeansAreOfNumericCells
        /\ \A f \in MappedTallies \cup SexoTally :
              SumValues(f.d) = HowMany(f.cells, LAMBDA c : ~IsMalformed(c))
        /\ ind_res[1].edad_tramos # None =>
              SumValues(ind_res[1].edad_tramos[1]) =
                  HowMany(FieldCells(df_ind, Cols_EDAD)[1], LAMBDA c : ~IsMalformed(c))

\* C4 amended: a malformed cell never aborts the analysis and is left out of
\* the mean and of the median, but it is tallied: in the sex tally under
\* Otro/NR, in the education, activity and technology tallies under its own
\* text (nan for an empty cell), and in the age buckets under the entry of
\* the missing values, together with the ages that fall in no bucket.
C4_ExcludedFromMeanTalliedInCounts ==
    Analyzed =>
        /\ MeansAreOfNumericCells
        /\ \A f \in SexoTally :
              GetCount(f.d, "Otro/NR") >= HowMany(f.cells, IsMalformed)
        /\ \A f \in MappedTallies :
              /\ GetCount(f.d, "nan") = HowMany(f.cells, LAMBDA c : c.kind = "nan")
              /\ GetCount(f.d, BadText) = HowMany(f.cells, LAMBDA c : c.kind = "str")
        /\ ind_res[1].edad_tramos # None =>
              GetCount(ind_res[1].edad_tramos[1], "nan") =
                  HowMany(FieldCells(df_ind, Cols_EDAD)[1],
                          LAMBDA c : IsMalformed(c) \/ c.val < 0 \/ c.val > 120)

\* An age column holding a text cell, an empty cell and one valid age was
\* analyzed, or an income column holding a malformed cell among two values.
C4_Witness ==
    /\ Analyzed
    /\ \/ /\ FieldCells(df_ind, Cols_EDAD) # None
          /\ \E i, j, k \in 1..NRows(df_ind) :
                /\ FieldCells(df_ind, Cols_EDAD)[1][i].kind = "str"
                /\ FieldCells(df_ind, Cols_EDAD)[1][j].kind = "nan"
                /\ FieldCells(df_ind, Cols_EDAD)[1][k].kind = "num"
          /\ ind_res[1].edad_media # None
       \/ /\ FieldCells(df_hog, ing_candidates) # None
          /\ HowMany(FieldCells(df_hog, ing_candidates)[1], IsMalformed) = 1
          /\ Len(NumVals(FieldCells(df_hog, ing_candidates)[1])) = 2

LabelLow == <<0, 5, 13, 19, 31, 46, 61, 75>>
LabelHigh == <<4, 12, 18, 30, 45, 60, 75, 120>>

\* C7: the age tally holds the 8 buckets, every age in 0..120 is counted in
\* exactly one of them, and only in a bucket whose label names a range that
\* holds it: no bucket counts more cells than there are ages in the range of
\* its label.
C7_BucketLabelHoldsAge ==
    (Analyzed /\ ind_res[1].edad_tramos # None) =>
        LET cells == FieldCells(df_ind, Cols_EDAD)[1]
            tramos == ind_res[1].edad_tramos[1]
        IN  /\ \A i \in 1..Len(labels) : tramos[i].k = labels[i]
            /\ SumSeq([i \in 1..Len(labels) |-> tramos[i].n]) =
                   HowMany(cells, LAMBDA c : c.kind = "num" /\ c.val \in 0..120)
            /\ \A i \in 1..Len(labels) :
                  tramos[i].n <=
                      HowMany(cells, LAMBDA c : c.kind = "num" /\
                                                c.val \in LabelLow[i]..LabelHigh[i])

(***************************************************************************)
(* Claims about the period, the narrative and the report.                  *)
(***************************************************************************)
Generated == pc = "generated"

\* C5: with the year or the quarter undetermined, the raw token None is shown
\* nowhere: not in a paragraph of the document, not in the narrative, not in
\* the suggested file name; the metadata paragraph, the period sentence and
\* the file name show a placeholder in its place.
C5_PlaceholderEverywhere ==
    (Generated /\ (anio = None \/ tri = None)) =>
        /\ \A i \in 1..Len(doc[1].paragraphs) : "None" \notin Range(doc[1].paragraphs[i])
        /\ \A i \in 1..Len(doc[1].conclusions) : "None" \notin Range(doc[1].conclusions[i])
        /\ "None" \notin Range(default_name[1])

\* What re.search of the two patterns returns on the lower-cased file names
\* of the model: <<name, year, quarter>>.
NameOracle == {
    <<NameHog, None, None>>,
    <<NameEph2019T3, Some(2019), Some(3)>>,
    <<NameEph2021, Some(2021), None>>,
    <<Name2TBase, None, None>>,
    <<Name4Trim2020, Some(2020), Some(4)>>,
    <<Name12t1999, None, None>>,
    <<Name1Trimestre, None, Some(1)>> }

NameYear(name) == (CHOOSE e \in NameOracle : e[1] = name)[2]
NameQuarter(name) == (CHOOSE e \in NameOracle : e[1] = name)[3]

\* The most frequent of the numeric values of the cells.
MostFrequent(cells) ==
    LET v == NumVals(cells)
    IN  {x \in Range(v) : \A y \in Range(v) : CountOf(v, y) <= CountOf(v, x)}

\* One field of one table: from the column when it resolves and holds a
\* numeric value, else from the file name.
PeriodFieldOk(result, df_in, aliases, fromName) ==
    LET col == FieldCells(df_in, aliases)
    IN  IF col # None /\ Len(NumVals(col[1])) > 0
        THEN result # None /\ result[1] \in MostFrequent(col[1])
        ELSE result = fromName

\* C6: for each table, and for year and quarter apart: a column that
\* resolves and holds a numeric value gives its most frequent numeric value,
\* whatever the file name holds; otherwise the value is the one the pattern
\* finds in the file name, and undetermined when it finds none.
C6_ColumnThenFileName ==
    pc # "loaded" =>
        /\ PeriodFieldOk(period[1].h.anio, df_hog, year_aliases, NameYear(hog_name))
        /\ PeriodFieldOk(period[1].h.tri, df_hog, q_aliases, NameQuarter(hog_name))
        /\ PeriodFieldOk(period[1].i.anio, df_ind, year_aliases, NameYear(ind_name))
        /\ PeriodFieldOk(period[1].i.tri, df_ind, q_aliases, NameQuarter(ind_name))

\* The year came from a column of three values, two of them equal, while the
\* file name holds another year, and the quarter came from the file name
\* because the quarter column holds no numeric value.
C6_Witness ==
    /\ pc = "detected"
    /\ FieldCells(df_hog, year_aliases) # None
    /\ Len(NumVals(FieldCells(df_hog, year_aliases)[1])) = 3
    /\ Cardinality(Range(NumVals(FieldCells(df_hog, year_aliases)[1]))) = 2
    /\ NameYear(hog_name) # None
    /\ period[1].h.anio # NameYear(hog_name)
    /\ FieldCells(df_hog, q_aliases) # None
    /\ NumVals(FieldCells(df_hog, q_aliases)[1]) = <<>>
    /\ period[1].h.tri = Some(3)

HasLine(s) == \E i \in 1..Len(doc[1].conclusions) : doc[1].conclusions[i][1] = s

\* C9: each sentence of the narrative about a field is there only if the
\* field resolved in the analysis result.
C9_SentenceOnlyIfResolved ==
    Generated =>
        /\ HasLine(S_SEXO) => ind_res[1].sexo_counts # None
        /\ HasLine(S_EDAD) => ind_res[1].edad_tramos # None
        /\ HasLine(S_EDUC) => ind_res[1].nivel_educativo_counts # None
        /\ HasLine(S_ACT) => ind_res[1].actividad_counts # None
        /\ HasLine(S_TIC) => Len(InternetCounts(ind_res[1])) > 0

\* The category a sentence of the narrative names.
Named(s) == doc[1].conclusions[CHOOSE i \in 1..Len(doc[1].conclusions) :
                                   doc[1].conclusions[i][1] = s][2]

\* k is the first key of the highest count of the distribution d.
IsFirstLeader(k, d) ==
    \E i \in 1..Len(d) :
        /\ d[i].k = k
        /\ \A j \in 1..Len(d) : d[j].n <= d[i].n
        /\ \A j \in 1..(i - 1) : d[j].n < d[i].n

\* C10: the age bracket the narrative names is one of the 8 bucket labels and
\* the education level it names is a category of the education tally, not
\* the entry of the missing values; each is the first key of the highest
\* count of its distribution.
C10_LeadingIsCategory ==
    Generated =>
        /\ ind_res[1].edad_tramos # None =>
              /\ HasLine(S_EDAD)
              /\ Named(S_EDAD) \in Range(labels)
              /\ IsFirstLeader(Named(S_EDAD), ind_res[1].edad_tramos[1])
        /\ (ind_res[1].nivel_educativo_counts # None
              /\ Len(ind_res[1].nivel_educativo_counts[1]) > 0) =>
              /\ HasLine(S_EDUC)
              /\ Named(S_EDUC) # "nan"
              /\ IsFirstLeader(Named(S_EDUC), ind_res[1].nivel_educativo_counts[1])

=============================================================================
